---- MODULE Spec2Model ----
(***************************************************************************)
(* Model of the solana-merkle-tree on-chain program: the InsertLeaf        *)
(* instruction (program/src/lib.rs, instruction.rs, processor.rs), the     *)
(* MerkleStateAccount accumulator (state.rs) and the sorted-pair hash      *)
(* (utils.rs).  Account data is modelled byte for byte: a 32-byte value is *)
(* a sequence of 32 integers in 0..255, the state account's data is the    *)
(* borsh image root_hash ++ u32-LE length ++ leaves.                       *)
(***************************************************************************)
EXTENDS Integers, Sequences, FiniteSets, TLC

\* ------------------------------------------------------------------ bounds
\* The largest number of leaves the explored ledger holds.
MaxLeaves == 6
\* The largest number of third-party lamport transfers to the state address.
MaxDonations == 1

\* ------------------------------------------------------- program constants
LEAF_LEN == 32
INIT_LEN == 32 + 4 + LEAF_LEN

\* ---------------------------------------------------------------- bytes
Min(a, b) == IF a <= b THEN a ELSE b

Pow256(k) == IF k = 0 THEN 1 ELSE IF k = 1 THEN 256 ELSE IF k = 2 THEN 65536 ELSE 16777216

\* A [u8; 32]: the big-endian image of a natural number below 2^31.
Bytes32(n) == [i \in 1..32 |-> IF i <= 28 THEN 0 ELSE (n \div Pow256(32 - i)) % 256]

\* The number a [u8; 32] is the big-endian image of; every value of the
\* model is below 2^31, so bytes 1..28 are zero and contribute nothing.
BigEndian(b) == b[29] * 16777216 + b[30] * 65536 + b[31] * 256 + b[32]

\* Rust's <= on [u8; 32]: lexicographic, byte by byte: equal, or smaller at
\* the first byte that differs.
LexLeq(a, b) ==
    \/ a = b
    \/ \E i \in 1..Len(a) : a[i] < b[i] /\ \A j \in 1..(i - 1) : a[j] = b[j]

\* ------------------------------------------------------------- utils.rs
\* SHA-256 of a 64-byte message, as a collision-free digest: the Cantor
\* pairing of the two 32-byte halves, which is injective and exceeds both.
Sha256(msg) ==
    LET l == BigEndian(SubSeq(msg, 1, 32))
        r == BigEndian(SubSeq(msg, 33, 64))
    IN  Bytes32(((l + r) * (l + r + 1)) \div 2 + r)

\* Faulty variant: the operands are hashed in the order given.
hash_sorted_pair_unsorted(a, b) == Sha256(a \o b)

hash_sorted_pair(a, b) ==
    LET left  == IF LexLeq(a, b) THEN a ELSE b
        right == IF LexLeq(a, b) THEN b ELSE a
    IN  Sha256(left \o right)

merkle_state_pda == "merkle_state_pda"
system_program_id == "system_program"

\* ------------------------------------------------------------- state.rs
\* Faulty variant: the root is left zeroed.
new_unseeded(init_hash) ==
    [root_hash |-> [i \in 1..32 |-> 0], leaf_hashes |-> <<init_hash>>]

new(init_hash) == [root_hash |-> init_hash, leaf_hashes |-> <<init_hash>>]

\* Faulty variant: an unpaired element is promoted unchanged.
next_layer_promote(current_layer) ==
    [k \in 1..((Len(current_layer) + 1) \div 2) |->
        LET pair == SubSeq(current_layer, 2 * k - 1, Min(2 * k, Len(current_layer)))
        IN  IF Len(pair) = 2 THEN hash_sorted_pair(pair[1], pair[2]) ELSE pair[1]]

\* Faulty variant: overlapping windows(2) instead of chunks(2).
next_layer_windows(current_layer) ==
    [k \in 1..(Len(current_layer) - 1) |->
        hash_sorted_pair(current_layer[k], current_layer[k + 1])]

\* Faulty variant: chunks(3).
chunks_of_three(current_layer) ==
    [k \in 1..((Len(current_layer) + 2) \div 3) |->
        SubSeq(current_layer, 3 * k - 2, Min(3 * k, Len(current_layer)))]

\* current_layer.chunks(2): consecutive slices of two elements, the last one
\* of a single element when the length is odd.
chunks(current_layer) ==
    [k \in 1..((Len(current_layer) + 1) \div 2) |->
        SubSeq(current_layer, 2 * k - 1, Min(2 * k, Len(current_layer)))]

\* What a round holds in place of a value once unreachable!() was hit.
Unreachable == <<>>

\* match pair { [a, b] => .., [a] => .., _ => unreachable!() }
combined(pair) ==
    IF Len(pair) = 2 THEN hash_sorted_pair(pair[1], pair[2])
    ELSE IF Len(pair) = 1 THEN hash_sorted_pair(pair[1], pair[1])
    ELSE Unreachable

\* for pair in current_layer.chunks(2) { next_layer.push(combined) }
next_layer(current_layer) ==
    LET pairs == chunks(current_layer)
    IN  [k \in 1..Len(pairs) |-> combined(pairs[k])]

\* The round panicked: one of its chunks took the unreachable arm.
panicked(layer) == \E i \in 1..Len(layer) : layer[i] = Unreachable

\* while current_layer.len() > 1 { ... current_layer = next_layer }; a panic
\* ends the loop.
RECURSIVE reduce_layers(_)
reduce_layers(current_layer) ==
    IF Len(current_layer) > 1 /\ ~panicked(current_layer)
    THEN reduce_layers(next_layer(current_layer))
    ELSE current_layer

\* The accumulator a panicking call leaves: none, the program aborts.
Panic == [panic |-> TRUE]

\* self.root_hash = current_layer[0] panics on an empty layer.
update_root_hash(self) ==
    LET current_layer == reduce_layers(self.leaf_hashes)
    IN  IF current_layer = <<>> \/ panicked(current_layer) THEN Panic
        ELSE [self EXCEPT !.root_hash = current_layer[1]]

\* Faulty variant: the root is not recomputed.
add_leaf_stale(self, leaf_hash) ==
    [self EXCEPT !.leaf_hashes = Append(self.leaf_hashes, leaf_hash)]

\* Faulty variant: a leaf already stored is not stored again.
add_leaf_dedup(self, leaf_hash) ==
    IF \E i \in 1..Len(self.leaf_hashes) : self.leaf_hashes[i] = leaf_hash THEN self
    ELSE update_root_hash([self EXCEPT !.leaf_hashes = Append(self.leaf_hashes, leaf_hash)])

\* Faulty variant: the new leaf overwrites the last one (a lost insertion).
add_leaf_lost(self, leaf_hash) ==
    update_root_hash([self EXCEPT !.leaf_hashes[Len(self.leaf_hashes)] = leaf_hash])

\* Faulty variant: the accumulator is seeded again with the new leaf.
add_leaf_reseed(self, leaf_hash) ==
    [root_hash |-> leaf_hash, leaf_hashes |-> <<leaf_hash>>]

add_leaf(self, leaf_hash) ==
    update_root_hash([self EXCEPT !.leaf_hashes = Append(self.leaf_hashes, leaf_hash)])

get_root_hash(self) == self.root_hash

get_leaf_hashes(self) == self.leaf_hashes

\* ------------------------------------------------- borsh (derive, state.rs)
U32LE(n) == [i \in 1..4 |-> (n \div Pow256(i - 1)) % 256]

FromU32LE(b) == b[1] + 256 * b[2] + 65536 * b[3] + 16777216 * b[4]

RECURSIVE Flatten(_)
Flatten(s) == IF s = <<>> THEN <<>> ELSE s[1] \o Flatten(Tail(s))

\* BorshSerialize for MerkleStateAccount.
to_vec(self) == self.root_hash \o U32LE(Len(self.leaf_hashes)) \o Flatten(self.leaf_hashes)

\* serialize(&mut &mut data[..]): writes at the front of the slice, fails
\* when the slice is too short, leaves the bytes after the image alone.
serialize(self, buf) ==
    LET img == to_vec(self)
    IN  IF Len(img) > Len(buf) THEN [ok |-> FALSE, data |-> buf]
        ELSE [ok |-> TRUE, data |-> img \o SubSeq(buf, Len(img) + 1, Len(buf))]

\* Faulty variant: bytes left over after the value are accepted.
try_from_slice_lenient(buf) ==
    IF Len(buf) < 36 THEN [ok |-> FALSE]
    ELSE LET n == FromU32LE(SubSeq(buf, 33, 36))
         IN  IF Len(buf) < 36 + LEAF_LEN * n THEN [ok |-> FALSE]
             ELSE [ok |-> TRUE,
                   value |-> [root_hash |-> SubSeq(buf, 1, 32),
                              leaf_hashes |-> [i \in 1..n |->
                                  SubSeq(buf, 36 + LEAF_LEN * (i - 1) + 1, 36 + LEAF_LEN * i)]]]

\* BorshDeserialize::try_from_slice: every read fails on a short input, and
\* bytes left over after the value are an error.
try_from_slice(buf) ==
    IF Len(buf) < 36 THEN [ok |-> FALSE]
    ELSE LET n == FromU32LE(SubSeq(buf, 33, 36))
         IN  IF Len(buf) # 36 + LEAF_LEN * n THEN [ok |-> FALSE]
             ELSE [ok |-> TRUE,
                   value |-> [root_hash |-> SubSeq(buf, 1, 32),
                              leaf_hashes |-> [i \in 1..n |->
                                  SubSeq(buf, 36 + LEAF_LEN * (i - 1) + 1, 36 + LEAF_LEN * i)]]]

\* ------------------------------------------------------- instruction.rs
pack(hash) == <<0>> \o hash

\* Faulty variant: a payload longer than 32 bytes is cut to 32.
unpack_prefix(input) ==
    IF input = <<>> THEN [ok |-> FALSE, err |-> "InvalidInstructionData"]
    ELSE IF input[1] = 0 /\ Len(input) >= 33
    THEN [ok |-> TRUE, hash |-> SubSeq(input, 2, 33)]
    ELSE [ok |-> FALSE, err |-> "InvalidInstructionData"]

\* split_first, then the tag selects the variant; try_into::<[u8; 32]>
\* succeeds only on a payload of exactly 32 bytes.
unpack(input) ==
    IF input = <<>> THEN [ok |-> FALSE, err |-> "InvalidInstructionData"]
    ELSE LET instruction_id   == input[1]
             instruction_data == Tail(input)
         IN  IF instruction_id = 0
             THEN IF Len(instruction_data) = 32
                  THEN [ok |-> TRUE, hash |-> instruction_data]
                  ELSE [ok |-> FALSE, err |-> "InvalidInstructionData"]
             ELSE [ok |-> FALSE, err |-> "InvalidInstructionData"]

\* ------------------------------------------- runtime calls of processor.rs
\* Rent::minimum_balance: (128 bytes of account overhead + data_len) *
\* 3480 lamports per byte-year * 2 years of exemption.
minimum_balance(data_len) == (128 + data_len) * 3480 * 2

\* {:x?} of a byte array: every byte in lower-case hex without padding,
\* here as its sequence of hex digits.
fmt_hex(bytes) == [i \in 1..Len(bytes) |->
                      IF bytes[i] < 16 THEN <<bytes[i]>>
                      ELSE <<bytes[i] \div 16, bytes[i] % 16>>]

\* What an instruction leaves behind.  A failed instruction rolls the whole
\* transaction back: accounts as before, nothing logged by the program.
Failure(acc, err) ==
    [result |-> err, data |-> acc.data, lamports |-> acc.lamports,
     payer_lamports |-> acc.payer_lamports, log |-> <<>>]

Success(data_, lamports_, payer_lamports_, log_) ==
    [result |-> "Ok", data |-> data_, lamports |-> lamports_,
     payer_lamports |-> payer_lamports_, log |-> log_]

\* invoke / invoke_signed of a system instruction that debits the payer:
\* the payer must have signed the transaction.
cpi_signer_ok(request) == request.payer_signer

\* Faulty variant: an underflow yields 0 instead of None.
saturating_sub(a, b) == [ok |-> TRUE, value |-> IF a < b THEN 0 ELSE a - b]

\* u64::checked_sub: None on underflow.
checked_sub(a, b) == IF a < b THEN [ok |-> FALSE] ELSE [ok |-> TRUE, value |-> a - b]

\* Faulty variant: the account is grown by one byte too many.
realloc_one_more(data_, new_size) == data_ \o [i \in 1..(new_size + 1 - Len(data_)) |-> 0]

\* AccountInfo::realloc(new_size, false) growing an account that was not
\* shrunk earlier in the transaction: the new region reads as zeros.
realloc(data_, new_size) == data_ \o [i \in 1..(new_size - Len(data_)) |-> 0]

\* Faulty variants: the identity checks let every account through.
check_system_program_skipped(request) == TRUE

check_merkle_state_pda_skipped(request) == TRUE

\* 1. Verify passed system program
check_system_program(request) == request.system_program = system_program_id

\* 2. Verify passed merkle state PDA
check_merkle_state_pda(request) == request.merkle_state_account = merkle_state_pda

\* Faulty variant: the root is logged as it was loaded.
append_log_before(before, after) == <<fmt_hex(get_root_hash(before))>>

\* msg!("{:x?}", merkle_state.get_root_hash()) on the append path
append_log(before, after) == <<fmt_hex(get_root_hash(after))>>

\* The create path: the state account's data is empty.
create_merkle_state(acc, request, hash) ==
    LET lamports_ == minimum_balance(INIT_LEN)
    IN  IF ~cpi_signer_ok(request) THEN Failure(acc, "MissingRequiredSignature")
        ELSE IF acc.lamports > 0 THEN Failure(acc, "AccountAlreadyInUse")
        ELSE IF acc.payer_lamports < lamports_ THEN Failure(acc, "InsufficientFunds")
        ELSE LET created      == [i \in 1..INIT_LEN |-> 0]
                 merkle_state == new(hash)
                 written      == serialize(merkle_state, created)
             IN  IF ~written.ok THEN Failure(acc, "BorshIoError")
                 ELSE Success(written.data, lamports_, acc.payer_lamports - lamports_,
                              <<fmt_hex(get_root_hash(merkle_state))>>)

\* The append path: load, pay the rent difference, grow, add, store.
append_merkle_state(acc, request, hash) ==
    LET loaded == try_from_slice(acc.data)
    IN  IF ~loaded.ok THEN Failure(acc, "BorshIoError")
        ELSE LET new_size == Len(acc.data) + LEAF_LEN
                 diff     == checked_sub(minimum_balance(new_size), acc.lamports)
             IN  IF ~diff.ok THEN Failure(acc, "AccountNotRentExempt")
                 ELSE LET lamports_diff == diff.value
                      IN  IF ~cpi_signer_ok(request)
                          THEN Failure(acc, "MissingRequiredSignature")
                          ELSE IF acc.payer_lamports < lamports_diff
                          THEN Failure(acc, "InsufficientFunds")
                          ELSE LET grown        == realloc(acc.data, new_size)
                                   merkle_state == add_leaf(loaded.value, hash)
                                   written      == serialize(merkle_state, grown)
                               IN  IF merkle_state = Panic
                                   THEN Failure(acc, "ProgramFailedToComplete")
                                   ELSE IF ~written.ok THEN Failure(acc, "BorshIoError")
                                   ELSE Success(written.data,
                                                acc.lamports + lamports_diff,
                                                acc.payer_lamports - lamports_diff,
                                                append_log(loaded.value, merkle_state))

process_insert_leaf(acc, request, hash) ==
    IF request.n_accounts < 3 THEN Failure(acc, "NotEnoughAccountKeys")
    ELSE IF ~check_system_program(request) THEN Failure(acc, "InvalidAccountData")
    ELSE IF ~check_merkle_state_pda(request) THEN Failure(acc, "InvalidAccountData")
    ELSE IF acc.data = <<>> THEN create_merkle_state(acc, request, hash)
    ELSE append_merkle_state(acc, request, hash)

\* ---------------------------------------------------------------- lib.rs
process_instruction(acc, request) ==
    LET instruction == unpack(request.instruction_data)
    IN  IF ~instruction.ok THEN Failure(acc, instruction.err)
        ELSE process_insert_leaf(acc, request, instruction.hash)

\* ------------------------------------------------------------- the ledger
VARIABLES
    data,            \* the state account's data: <<>> until it is created
    lamports,        \* the state account's balance
    payer_lamports,  \* the payer's balance
    donations,       \* third-party transfers to the state address so far
    req,             \* the last transaction: the request, or NoRequest
    result,          \* the last transaction's result
    log,             \* what the program logged in the last transaction
    committed        \* the leaves of the committed InsertLeaf transactions, in order

vars == <<data, lamports, payer_lamports, donations, req, result, log, committed>>

\* The 32-byte values clients submit, as the numbers they are the images of.
LeafValues == {1, 2}
Hashes == {Bytes32(v) : v \in LeafValues}

\* The payer's balance at genesis: ample, or enough for few leaves only.
PayerFunds == {5000000, 1600000}

\* Lamports a third party sends to the state address: less and more than
\* the rent of one more leaf.
DonationAmounts == {1, 300000}

NoRequest == [kind |-> "none"]

Request(ix, state_key, system_key, signer, n) ==
    [kind |-> "InsertLeaf", instruction_data |-> ix, merkle_state_account |-> state_key,
     system_program |-> system_key, payer_signer |-> signer, n_accounts |-> n]

\* What the CLI and the tests send (main.rs 62-70, lib.rs 66-74).
WellFormed(h) == Request(pack(h), merkle_state_pda, system_program_id, TRUE, 3)

\* The well-formed requests and their single-fault variants.
Requests ==
    {WellFormed(h) : h \in Hashes}
    \cup {Request(ix, merkle_state_pda, system_program_id, TRUE, 3) :
            ix \in {<<>>, <<1>> \o Bytes32(1), <<0>> \o SubSeq(Bytes32(1), 1, 31),
                    <<0>> \o Bytes32(1) \o <<0>>}}
    \cup {Request(pack(Bytes32(1)), "other_account", system_program_id, TRUE, 3),
          Request(pack(Bytes32(1)), merkle_state_pda, "other_program", TRUE, 3),
          Request(pack(Bytes32(1)), merkle_state_pda, system_program_id, FALSE, 3),
          Request(pack(Bytes32(1)), merkle_state_pda, system_program_id, TRUE, 2),
          Request(<<>>, merkle_state_pda, system_program_id, TRUE, 2)}

Init ==
    /\ data = <<>>
    /\ lamports = 0
    /\ payer_lamports \in PayerFunds
    /\ donations = 0
    /\ req = NoRequest
    /\ result = "none"
    /\ log = <<>>
    /\ committed = <<>>

\* One transaction holding one InsertLeaf instruction.
InsertLeaf ==
    /\ Len(data) < INIT_LEN - LEAF_LEN + LEAF_LEN * MaxLeaves
    /\ \E request \in Requests :
         LET acc == [data |-> data, lamports |-> lamports, payer_lamports |-> payer_lamports]
             out == process_instruction(acc, request)
         IN  /\ data' = out.data
             /\ lamports' = out.lamports
             /\ payer_lamports' = out.payer_lamports
             /\ req' = request
             /\ result' = out.result
             /\ log' = out.log
             /\ committed' = IF out.result = "Ok"
                             THEN Append(committed, unpack(request.instruction_data).hash)
                             ELSE committed
             /\ UNCHANGED donations

\* Anyone may transfer lamports to the state address, created or not.
Donate ==
    /\ donations < MaxDonations
    /\ \E amount \in DonationAmounts :
         /\ lamports' = lamports + amount
         /\ donations' = donations + 1
         /\ req' = NoRequest
         /\ result' = "none"
         /\ log' = <<>>
         /\ UNCHANGED <<data, payer_lamports, committed>>

Next == InsertLeaf \/ Donate

Spec == Init /\ [][Next]_vars

\* A ledger that starts from a snapshot of the state account: the image of
\* a leaf sequence, or such an image damaged in one way
\* (a truncated leaf entry, a length prefix that disagrees with the byte
\* count, trailing bytes, fewer bytes than the fixed header).
SnapshotLeaves ==
    { <<Bytes32(1), Bytes32(2), Bytes32(2), Bytes32(1)>>,
      <<Bytes32(2), Bytes32(1), Bytes32(1), Bytes32(1), Bytes32(2)>> }

Image(leaves) == to_vec([root_hash |-> reduce_layers(leaves)[1], leaf_hashes |-> leaves])

Damaged(img) ==
    { SubSeq(img, 1, Len(img) - 1),
      SubSeq(img, 1, Len(img) - 31),
      SubSeq(img, 1, 32) \o U32LE(FromU32LE(SubSeq(img, 33, 36)) + 1) \o SubSeq(img, 37, Len(img)),
      SubSeq(img, 1, 32) \o U32LE(FromU32LE(SubSeq(img, 33, 36)) - 1) \o SubSeq(img, 37, Len(img)),
      img \o <<0>>,
      SubSeq(img, 1, 35) }

Snapshots ==
    {Image(l) : l \in SnapshotLeaves} \cup UNION {Damaged(Image(l)) : l \in SnapshotLeaves}

InitLoad ==
    /\ data \in Snapshots
    /\ lamports = minimum_balance(Len(data))
    /\ payer_lamports \in PayerFunds
    /\ donations = 0
    /\ req = NoRequest
    /\ result = "none"
    /\ log = <<>>
    /\ committed = <<>>

SpecLoad == InitLoad /\ [][Next]_vars

\* ------------------------------------------------------ the query interface
\* What a reader of the state account sees (main.rs GetRootHash, the tests).
Stored == try_from_slice(data)

Leaves == IF data # <<>> /\ Stored.ok THEN get_leaf_hashes(Stored.value) ELSE <<>>

Root == IF data # <<>> /\ Stored.ok THEN get_root_hash(Stored.value) ELSE <<>>

\* The last transaction was an InsertLeaf that succeeded / its leaf.
Inserted == req.kind = "InsertLeaf" /\ result = "Ok"

InsertedHash == unpack(req.instruction_data).hash

\* ------------------------------------------------------------------ claims
\* The root of section 4.2 of the specification: pair the layer up from the
\* left, a trailing single element with itself, until one element is left.
RECURSIVE PairUp(_)
PairUp(layer) ==
    IF layer = <<>> THEN <<>>
    ELSE IF Len(layer) = 1 THEN <<hash_sorted_pair(layer[1], layer[1])>>
    ELSE <<hash_sorted_pair(layer[1], layer[2])>> \o PairUp(Tail(Tail(layer)))

RECURSIVE computeRoot(_)
computeRoot(leaves) == IF Len(leaves) = 1 THEN leaves[1] ELSE computeRoot(PairUp(leaves))

\* C1: in every reachable state that holds an accumulator, the stored bytes
\* parse, the leaf sequence is not empty and the stored root_hash is
\* computeRoot of the full stored leaf sequence: no insert leaves it stale.
C1_RootIsComputeRoot ==
    data # <<>> => /\ Stored.ok
                   /\ Leaves # <<>>
                   /\ Root = computeRoot(Leaves)

C1_Witness ==
    /\ Inserted
    /\ Len(Leaves) = 5
    /\ Leaves[1] # Leaves[2]
    /\ Root = computeRoot(Leaves)

\* C2: a successful InsertLeaf(h) on an account without data creates the
\* accumulator with leaves = <<h>> and root = h, and after any step an
\* account with data never holds an empty leaf sequence.
C2_CreateSeedsSingleLeaf ==
    [][ /\ (data = <<>> /\ Inserted') => (Leaves' = <<InsertedHash'>> /\ Root' = InsertedHash')
        /\ data' # <<>> => Leaves' # <<>> ]_vars

C2_Witness ==
    /\ Inserted
    /\ Len(data) = INIT_LEN
    /\ Leaves = <<InsertedHash>>
    /\ Root = InsertedHash

\* C3: the stored root is the reduction by consecutive pairs, the trailing
\* element of an odd layer paired with itself; written out for the leaf
\* counts 2 to 6.
C3_PairingShape ==
    LET L == Leaves
        c(a, b) == hash_sorted_pair(a, b)
    IN  /\ Len(L) = 2 => Root = c(L[1], L[2])
        /\ Len(L) = 3 => Root = c(c(L[1], L[2]), c(L[3], L[3]))
        /\ Len(L) = 4 => Root = c(c(L[1], L[2]), c(L[3], L[4]))
        /\ Len(L) = 5 => Root = c(c(c(L[1], L[2]), c(L[3], L[4])),
                                  c(c(L[5], L[5]), c(L[5], L[5])))
        /\ Len(L) = 6 => Root = c(c(c(L[1], L[2]), c(L[3], L[4])),
                                  c(c(L[5], L[6]), c(L[5], L[6])))

C3_Witness ==
    /\ Inserted
    /\ Len(Leaves) = 5
    /\ Leaves[4] # Leaves[5]
    /\ Root = hash_sorted_pair(
                  hash_sorted_pair(hash_sorted_pair(Leaves[1], Leaves[2]),
                                   hash_sorted_pair(Leaves[3], Leaves[4])),
                  hash_sorted_pair(hash_sorted_pair(Leaves[5], Leaves[5]),
                                   hash_sorted_pair(Leaves[5], Leaves[5])))

\* Every value the root computation of the stored leaves combines: the
\* elements of every layer that is reduced further.
RECURSIVE NodesOf(_)
NodesOf(layer) ==
    IF Len(layer) > 1 THEN {layer[i] : i \in 1..Len(layer)} \cup NodesOf(PairUp(layer))
    ELSE {}

\* C4: for all values a, b the tree combines, hash_sorted_pair(a, b) equals
\* hash_sorted_pair(b, a), and is the digest of the smaller operand followed
\* by the larger one (of a || a when they are equal).
C4_CombineCommutes ==
    \A a \in NodesOf(Leaves), b \in NodesOf(Leaves) :
        /\ hash_sorted_pair(a, b) = hash_sorted_pair(b, a)
        /\ hash_sorted_pair(a, b) =
               IF BigEndian(a) <= BigEndian(b) THEN Sha256(a \o b) ELSE Sha256(b \o a)

C4_Witness ==
    /\ Inserted
    /\ Len(Leaves) = 2
    /\ BigEndian(Leaves[1]) > BigEndian(Leaves[2])
    /\ Root = Sha256(Leaves[2] \o Leaves[1])

\* C5: a successful insert appends its leaf, duplicate or not, at the end
\* and keeps every earlier leaf in place; every other step leaves the leaf
\* sequence as it was.
C5_AppendOnly ==
    [][ IF Inserted' THEN Leaves' = Append(Leaves, InsertedHash') ELSE Leaves' = Leaves ]_vars

C5_Witness ==
    /\ Inserted
    /\ Len(Leaves) = 4
    /\ Leaves[4] = InsertedHash
    /\ \E i \in 1..3 : Leaves[i] = InsertedHash

\* The largest power of two that divides n.
RECURSIVE LowBit(_)
LowBit(n) == IF n % 2 = 1 THEN 1 ELSE 2 * LowBit(n \div 2)

\* The insert of h after leaves repeats what the self-pairing of the odd
\* layer above the last LowBit(n) leaves already stood for.
RepeatsPadding(leaves, h) ==
    LET n == Len(leaves)
    IN  /\ n # LowBit(n)
        /\ \A i \in (n - LowBit(n) + 1)..n : leaves[i] = h

\* C6 as stated: every successful insert into an initialized accumulator
\* changes the root.
C6_EveryInsertChangesRoot ==
    [][ (data # <<>> /\ Inserted') => Root' # Root ]_vars

\* C6 as amended: a successful insert into an initialized accumulator keeps
\* the root exactly when the leaf count n is not a power of two and the last
\* LowBit(n) stored leaves all equal the new leaf; every other insert
\* changes it.
C6_RootKeptOnlyOnRepeatedPadding ==
    [][ (data # <<>> /\ Inserted') =>
            ((Root' = Root) <=> RepeatsPadding(Leaves, InsertedHash')) ]_vars

C6_Witness ==
    /\ Inserted
    /\ Len(Leaves) = 4
    /\ Leaves[3] = Leaves[4]
    /\ Leaves[1] # Leaves[2]
    /\ Root = computeRoot(SubSeq(Leaves, 1, 3))

\* The layers update_root_hash goes through for the stored leaves, the
\* leaves first and the one-element layer last.
RECURSIVE LayersOf(_)
LayersOf(layer) ==
    IF Len(layer) > 1 THEN <<layer>> \o LayersOf(next_layer(layer)) ELSE <<layer>>

\* C7 as stated: a layer of length 1 holding x is promoted to combine(x, x).
C7_SingleLayerSelfPaired ==
    Len(Leaves) = 1 => Root = hash_sorted_pair(Leaves[1], Leaves[1])

\* C7 as amended: in every layer of odd length greater than 1 the trailing
\* single element x is promoted to combine(x, x), which is not x; a layer of
\* length 1 is not reduced: its element is the root, unchanged.
C7_OddTailSelfPaired ==
    LET Ls == LayersOf(Leaves)
    IN  Leaves # <<>> =>
          /\ \A i \in 1..(Len(Ls) - 1) :
                Len(Ls[i]) % 2 = 1 =>
                    LET x == Ls[i][Len(Ls[i])]
                        promoted == Ls[i + 1][Len(Ls[i + 1])]
                    IN  promoted = hash_sorted_pair(x, x) /\ promoted # x
          /\ Len(Ls[Len(Ls)]) = 1
          /\ Root = Ls[Len(Ls)][1]
          /\ Len(Leaves) = 1 => Root = Leaves[1]

C7_Witness ==
    /\ Inserted
    /\ Len(Leaves) = 3
    /\ Leaves[3] # Leaves[2]
    /\ Root = hash_sorted_pair(hash_sorted_pair(Leaves[1], Leaves[2]),
                               hash_sorted_pair(Leaves[3], Leaves[3]))

\* C8: a successful InsertLeaf logs exactly the root it stored: the inserted
\* leaf on the create path, computeRoot of the leaves with the new leaf on
\* the append path; a failed instruction logs nothing.
C8_LogIsNewRoot ==
    [][ /\ Inserted' =>
              /\ log' = <<fmt_hex(Root')>>
              /\ data = <<>> => log' = <<fmt_hex(InsertedHash')>>
              /\ data # <<>> => log' = <<fmt_hex(computeRoot(Append(Leaves, InsertedHash')))>>
        /\ (req'.kind = "InsertLeaf" /\ result' # "Ok") => log' = <<>> ]_vars

C8_Witness ==
    /\ Inserted
    /\ Len(Leaves) = 3
    /\ log = <<fmt_hex(Root)>>
    /\ Root # computeRoot(SubSeq(Leaves, 1, 2))

\* The bytes are the image of some (root, leaves) pair: a 36-byte header
\* whose length prefix counts exactly the 32-byte entries that follow.
WellFormedImage(bytes) ==
    /\ Len(bytes) >= 36
    /\ (Len(bytes) - 36) % LEAF_LEN = 0
    /\ SubSeq(bytes, 33, 36) = U32LE((Len(bytes) - 36) \div LEAF_LEN)

\* C9: an InsertLeaf on a state account whose bytes are not a well-formed
\* image fails, and the bytes (so the account size), both balances and the
\* log are as before.
C9_MalformedStateRejected ==
    [][ (data # <<>> /\ ~WellFormedImage(data) /\ req'.kind = "InsertLeaf") =>
            /\ result' \notin {"Ok", "none"}
            /\ data' = data
            /\ lamports' = lamports
            /\ payer_lamports' = payer_lamports
            /\ log' = <<>> ]_vars

C9_Witness ==
    /\ data # <<>>
    /\ Len(data) > INIT_LEN
    /\ Len(data) % LEAF_LEN = 3
    /\ req \in {WellFormed(h) : h \in Hashes}
    /\ result = "BorshIoError"

\* C10: an InsertLeaf whose state account is not the program-derived
\* address, or whose system program id is wrong, fails with
\* InvalidAccountData when it decodes and carries three accounts, and in
\* every case creates no account, moves no lamports and keeps the data.
C10_WrongAccountsRejected ==
    [][ (req'.kind = "InsertLeaf" /\ (\/ req'.merkle_state_account # merkle_state_pda
                                      \/ req'.system_program # system_program_id)) =>
            /\ result' \notin {"Ok", "none"}
            /\ (unpack(req'.instruction_data).ok /\ req'.n_accounts >= 3)
                   => result' = "InvalidAccountData"
            /\ data' = data
            /\ lamports' = lamports
            /\ payer_lamports' = payer_lamports
            /\ log' = <<>> ]_vars

C10_Witness ==
    /\ req.kind = "InsertLeaf"
    /\ req.merkle_state_account # merkle_state_pda
    /\ result = "InvalidAccountData"
    /\ Len(Leaves) = 2

\* C11: the creating insert allocates 68 bytes, every later successful
\* insert grows the data by exactly 32 bytes, nothing else changes its
\* length, and after every step the data of an existing account is exactly
\* the image of (root, leaves): 36 + 32 * len(leaves) bytes that parse.
C11_AllocationTracksLeaves ==
    [][ /\ (Inserted' /\ data = <<>>) => Len(data') = 68
        /\ (Inserted' /\ data # <<>>) => Len(data') = Len(data) + 32
        /\ ~Inserted' => Len(data') = Len(data)
        /\ data' # <<>> => /\ Stored'.ok
                           /\ Len(data') = 36 + 32 * Len(Leaves')
                           /\ data' = to_vec(Stored'.value) ]_vars

C11_Witness ==
    /\ Inserted
    /\ Len(Leaves) = 3
    /\ Len(data) = 132
    /\ data = to_vec(Stored.value)

\* The smallest integer not below n / 2.
HalfUp(n) == (n + 1) \div 2

\* C12: for the stored leaves extended by any leaf, every reduction round
\* meets only chunks of one or two elements, turns a layer of length n > 1
\* into one of length ceil(n / 2), at least 1 and less than n, and the last
\* layer has exactly one element; no InsertLeaf ends in a panic.
C12_AddLeafTotal ==
    /\ result # "ProgramFailedToComplete"
    /\ data # <<>> =>
         \A h \in Hashes :
            LET Ls == LayersOf(Append(Leaves, h))
            IN  /\ add_leaf(Stored.value, h) # Panic
                /\ \A i \in 1..(Len(Ls) - 1) :
                      /\ \A k \in 1..Len(chunks(Ls[i])) : Len(chunks(Ls[i])[k]) \in {1, 2}
                      /\ Len(Ls[i + 1]) = HalfUp(Len(Ls[i]))
                      /\ Len(Ls[i + 1]) >= 1
                      /\ Len(Ls[i + 1]) < Len(Ls[i])
                      /\ ~panicked(Ls[i + 1])
                /\ Len(Ls[Len(Ls)]) = 1

C12_Witness ==
    /\ Inserted
    /\ Len(Leaves) = 5
    /\ Len(LayersOf(Leaves)) = 4
    /\ Len(LayersOf(Leaves)[2]) = 3

\* C13: with every InsertLeaf executed as one step, whatever the order in
\* which the clients' requests arrive, the stored leaves are exactly the
\* leaves of the committed inserts in commit order, and a reader of the
\* account between two steps finds a root that is computeRoot of the leaves
\* it finds beside it.  (A client is identified by the request it sends; the
\* program reads nothing else of it.)
C13_NoInsertLost ==
    /\ Leaves = committed
    /\ data = <<>> <=> committed = <<>>
    /\ data # <<>> => (Stored.ok /\ get_root_hash(Stored.value)
                                      = computeRoot(get_leaf_hashes(Stored.value)))

C13_Witness ==
    /\ Len(committed) = 4
    /\ committed[1] # committed[2]
    /\ committed[3] # committed[4]
    /\ Leaves = committed
    /\ result # "Ok"
    /\ req.kind = "InsertLeaf"

\* C14: an account with data keeps having data; a successful InsertLeaf on
\* an account without data seeds one leaf, and every successful InsertLeaf
\* on an account with data extends the leaves it found, to two or more: the
\* leaves are never seeded again.
C14_TwoStateLifecycle ==
    [][ /\ data # <<>> => data' # <<>>
        /\ (Inserted' /\ data = <<>>) => (Len(Leaves') = 1 /\ log' = <<fmt_hex(InsertedHash')>>)
        /\ (Inserted' /\ data # <<>>) =>
              /\ Len(Leaves') = Len(Leaves) + 1
              /\ Len(Leaves') >= 2
              /\ SubSeq(Leaves', 1, Len(Leaves)) = Leaves
        /\ data' # <<>> => Len(Leaves') >= 1 ]_vars

C14_Witness ==
    /\ Inserted
    /\ Len(Leaves) = 2
    /\ Leaves[1] # Leaves[2]
    /\ Leaves[2] = InsertedHash

\* C15 as stated: a well-formed InsertLeaf on a well-formed initialized
\* state account, from a signing payer who holds the rent of the grown
\* account, succeeds whatever the state account's balance is.
C15_WellFormedInsertSucceeds ==
    [][ ( /\ data # <<>>
          /\ Stored.ok
          /\ req' \in {WellFormed(h) : h \in Hashes}
          /\ payer_lamports >= minimum_balance(Len(data) + LEAF_LEN) )
        => result' = "Ok" ]_vars

\* leaves with the blocks of width w that start at i and i + w exchanged.
SwapBlocks(leaves, i, w) ==
    [j \in 1..Len(leaves) |->
        IF j >= i /\ j < i + w THEN leaves[j + w]
        ELSE IF j >= i + w /\ j < i + 2 * w THEN leaves[j - w]
        ELSE leaves[j]]

\* The first leaves of the sibling subtrees of width w that lie whole within
\* n leaves: the children of one internal node.
SiblingStarts(n, w) == {i \in 1..n : (i - 1) % (2 * w) = 0 /\ i + 2 * w - 1 <= n}

\* C16: exchanging the two leaves of a sibling pair of the bottom layer, or
\* the two-leaf blocks of the two children of an internal node one layer
\* up, gives a leaf sequence with the same root as the stored one.
C16_SiblingOrderIgnored ==
    data # <<>> =>
        \A w \in {1, 2} : \A i \in SiblingStarts(Len(Leaves), w) :
            reduce_layers(SwapBlocks(Leaves, i, w))[1] = Root

C16_Witness ==
    /\ Inserted
    /\ Len(Leaves) = 5
    /\ Leaves[1] # Leaves[2]
    /\ <<Leaves[1], Leaves[2]>> # <<Leaves[3], Leaves[4]>>
    /\ SwapBlocks(Leaves, 1, 2) # Leaves
    /\ reduce_layers(SwapBlocks(Leaves, 1, 2))[1] = Root
    /\ reduce_layers(SwapBlocks(Leaves, 1, 1))[1] = Root

\* C17: an instruction decodes exactly when it is the tag byte 0 followed by
\* 32 bytes, and then to InsertLeaf with those bytes; anything else ends the
\* transaction with InvalidInstructionData, whatever accounts it carries,
\* with data, balances and log untouched; unpack undoes pack.
C17_DecodeExact ==
    [][ req'.kind = "InsertLeaf" =>
          LET ix == req'.instruction_data
              tagged == Len(ix) = 33 /\ ix[1] = 0
          IN  /\ tagged => /\ unpack(ix) = [ok |-> TRUE, hash |-> SubSeq(ix, 2, 33)]
                           /\ result' # "InvalidInstructionData"
                           /\ Inserted' => Leaves'[Len(Leaves')] = SubSeq(ix, 2, 33)
              /\ ~tagged => /\ ~unpack(ix).ok
                            /\ result' = "InvalidInstructionData"
                            /\ data' = data
                            /\ lamports' = lamports
                            /\ payer_lamports' = payer_lamports
                            /\ log' = <<>>
              /\ \A h \in Hashes : unpack(pack(h)) = [ok |-> TRUE, hash |-> h] ]_vars

C17_Witness ==
    /\ req.kind = "InsertLeaf"
    /\ Len(req.instruction_data) = 34
    /\ req.instruction_data[1] = 0
    /\ result = "InvalidInstructionData"
    /\ Len(Leaves) = 2

\* C18: after a successful InsertLeaf the state account holds at least the
\* rent-exempt minimum of its new data length: the create path moves
\* minimum_balance(68) from the payer, the append path moves exactly
\* minimum_balance(old length + 32) less the current balance; when the
\* current balance exceeds that minimum the instruction fails and nothing
\* moves.
C18_RentExemptAfterInsert ==
    [][ /\ Inserted' => lamports' >= minimum_balance(Len(data'))
        /\ (Inserted' /\ data = <<>>) =>
              /\ lamports' = minimum_balance(68)
              /\ payer_lamports - payer_lamports' = minimum_balance(68)
        /\ (Inserted' /\ data # <<>>) =>
              /\ minimum_balance(Len(data) + 32) >= lamports
              /\ payer_lamports - payer_lamports' = minimum_balance(Len(data) + 32) - lamports
              /\ lamports' - lamports = payer_lamports - payer_lamports'
        /\ (req'.kind = "InsertLeaf" /\ data # <<>>
                /\ lamports > minimum_balance(Len(data) + 32)) =>
              /\ result' # "Ok"
              /\ lamports' = lamports
              /\ payer_lamports' = payer_lamports ]_vars

C18_Witness ==
    /\ Inserted
    /\ donations = 1
    /\ Len(Leaves) = 3
    /\ lamports = minimum_balance(Len(data))
    /\ payer_lamports + lamports - 1 \in PayerFunds

====
